---- MODULE Spec2Model ----
(***************************************************************************)
(* The Iris prediction service: train_model.py fits a 3-class logistic    *)
(* regression and dumps model.pkl / feature_names.pkl; app.py loads both   *)
(* at import time and answers POST /predict from the loaded objects.       *)
(*                                                                         *)
(* Library behaviour the handlers rely on (Flask >= 2.1, numpy >= 1.24,    *)
(* scikit-learn's LogisticRegression) is modelled by what the calls do:    *)
(* get_json aborts on a body that is no JSON, len / in / [] raise          *)
(* TypeError on values that do not support them, np.array raises on a      *)
(* ragged list, predict validates its input, and predict_proba is the      *)
(* softmax of the decision scores.  Floats are integers with a finite      *)
(* range; a result outside the range is +-Inf, and Inf - Inf is NaN.       *)
(***************************************************************************)
EXTENDS Integers, Sequences, FiniteSets, TLC

\* ------------------------------------------------------------------ bounds

\* Largest finite float of the model (float64: about 1.8e308).
MaxFloat == 10000
\* Longest 'features' list a request carries (the handler expects 4).
MaxLen == 5
\* Weight of the largest score in the softmax (exp(0), scaled).
Scale == 1024
\* The probabilities are integers in 0..ProbUnit (1.0 is ProbUnit).
ProbUnit == 1000

\* ------------------------------------------------------------------ floats

PosInf == MaxFloat + 1
NegInf == 0 - (MaxFloat + 1)
NaN == MaxFloat + 2

IsFinite(a) == a >= 0 - MaxFloat /\ a <= MaxFloat

\* IEEE rounding of an exact result: out of range is an infinity.
Sat(n) == IF n > MaxFloat THEN PosInf ELSE IF n < 0 - MaxFloat THEN NegInf ELSE n

FMul(a, b) ==
    IF a = NaN \/ b = NaN THEN NaN
    ELSE IF IsFinite(a) /\ IsFinite(b) THEN Sat(a * b)
    ELSE IF a = 0 \/ b = 0 THEN NaN
    ELSE IF (a > 0) = (b > 0) THEN PosInf ELSE NegInf

FAdd(a, b) ==
    IF a = NaN \/ b = NaN THEN NaN
    ELSE IF IsFinite(a) /\ IsFinite(b) THEN Sat(a + b)
    ELSE IF IsFinite(a) THEN b
    ELSE IF IsFinite(b) THEN a
    ELSE IF a = b THEN a ELSE NaN

FSub(a, b) ==
    IF b = NaN THEN NaN ELSE IF b = PosInf THEN FAdd(a, NegInf)
    ELSE IF b = NegInf THEN FAdd(a, PosInf) ELSE FAdd(a, 0 - b)

\* a <= b as floats: every comparison with NaN is false.
FLeq(a, b) == a # NaN /\ b # NaN /\ a <= b

\* ------------------------------------------------------------ JSON values

JNull == [t |-> "null"]
JBool(b) == [t |-> "bool", b |-> b]
JNum(v) == [t |-> "num", v |-> v]
\* a string is the sequence of its characters
JStr(chars) == [t |-> "str", chars |-> chars]
JList(items) == [t |-> "list", items |-> items]
JObj(fields) == [t |-> "obj", fields |-> fields]

FeaturesKey == <<"f", "e", "a", "t", "u", "r", "e", "s">>

\* bool(v)
PyTruthy(v) ==
    CASE v.t = "null" -> FALSE
      [] v.t = "bool" -> v.b
      [] v.t = "num" -> v.v # 0
      [] v.t = "str" -> Len(v.chars) > 0
      [] v.t = "list" -> Len(v.items) > 0
      [] v.t = "obj" -> DOMAIN v.fields # {}

IsSubstring(sub, s) ==
    \E i \in 0..(Len(s) - Len(sub)) : SubSeq(s, i + 1, i + Len(sub)) = sub

\* key in v: substring test on a string, element test on a list, key test on
\* a dict, TypeError on a value that is not iterable.
PyContains(key, v) ==
    CASE v.t = "str" -> [raised |-> FALSE, val |-> IsSubstring(key, v.chars)]
      [] v.t = "list" -> [raised |-> FALSE,
                          val |-> \E i \in 1..Len(v.items) : v.items[i] = JStr(key)]
      [] v.t = "obj" -> [raised |-> FALSE, val |-> key \in DOMAIN v.fields]
      [] OTHER -> [raised |-> TRUE, val |-> FALSE]

\* v[key]: only a dict holding the key answers; a str or a list indexed by a
\* str raises TypeError.
PyGetItem(v, key) ==
    IF v.t = "obj" /\ key \in DOMAIN v.fields
    THEN [raised |-> FALSE, val |-> v.fields[key]]
    ELSE [raised |-> TRUE, val |-> JNull]

\* len(v): TypeError on None, bool and numbers.
PyLen(v) ==
    CASE v.t = "str" -> [raised |-> FALSE, val |-> Len(v.chars)]
      [] v.t = "list" -> [raised |-> FALSE, val |-> Len(v.items)]
      [] v.t = "obj" -> [raised |-> FALSE, val |-> Cardinality(DOMAIN v.fields)]
      [] OTHER -> [raised |-> TRUE, val |-> 0]

\* ------------------------------------------------------------------ numpy

RECURSIVE Flatten(_)
Flatten(rows) ==
    IF rows = <<>> THEN <<>>
    ELSE [i \in 1..Len(Head(rows).items) |-> Head(rows).items[i].v] \o Flatten(Tail(rows))

NoArray == [raised |-> TRUE, dtype |-> "none", row |-> <<>>]

\* np.array(features).reshape(1, -1): the single row handed to the model.
\* A list of numbers is a float row; a list of equally long lists of numbers
\* is flattened; a ragged list raises ValueError; strings make a string
\* array and None or a dict an object array, both of which the model rejects.
NpRow(f) ==
    CASE f.t = "list" ->
           LET its == f.items
               idx == 1..Len(its)
           IN  IF \A i \in idx : its[i].t = "num"
               THEN [raised |-> FALSE, dtype |-> "float",
                     row |-> [i \in idx |-> its[i].v]]
               ELSE IF \A i \in idx : its[i].t = "list"
                          /\ Len(its[i].items) = Len(its[1].items)
                          /\ \A j \in 1..Len(its[i].items) : its[i].items[j].t = "num"
               THEN [raised |-> FALSE, dtype |-> "float", row |-> Flatten(its)]
               ELSE IF \E i \in idx : its[i].t = "list"
               THEN NoArray
               ELSE IF \E i \in idx : its[i].t = "str"
               THEN [raised |-> FALSE, dtype |-> "str", row |-> [i \in idx |-> 0]]
               ELSE [raised |-> FALSE, dtype |-> "object", row |-> [i \in idx |-> 0]]
      [] f.t = "str" -> [raised |-> FALSE, dtype |-> "str", row |-> <<0>>]
      [] OTHER -> [raised |-> FALSE, dtype |-> "object", row |-> <<0>>]

\* ------------------------------------------------------ the fitted model

NFeatures == 4
NClasses == 3

\* LogisticRegression(max_iter=1000).fit(X_train, y_train): the fit is
\* deterministic (random_state=42); coefficients and intercepts in tenths.
FittedModel ==
    [classes |-> <<0, 1, 2>>,
     coef |-> << <<-4, 10, -25, -11>>, <<5, -3, -2, -9>>, <<-1, -7, 27, 20>> >>,
     intercept |-> <<98, 22, -120>>]

\* A model.pkl that is not the trainer's: a classifier of the same shape
\* fitted on the labels 1, 2, 3.
OtherModel ==
    [classes |-> <<1, 2, 3>>,
     coef |-> << <<-1, -7, 27, 20>>, <<5, -3, -2, -9>>, <<-4, 10, -25, -11>> >>,
     intercept |-> <<-120, 22, 98>>]

\* iris.feature_names
IrisFeatureNames ==
    <<"sepal length (cm)", "sepal width (cm)", "petal length (cm)", "petal width (cm)">>

RECURSIVE Dot(_, _, _)
Dot(w, x, n) == IF n = 0 THEN 0 ELSE FAdd(Dot(w, x, n - 1), FMul(w[n], x[n]))

\* decision_function: X @ coef_.T + intercept_
Decision(m, x) == [c \in 1..NClasses |-> FAdd(Dot(m.coef[c], x, NFeatures), m.intercept[c])]

\* np.argmax: the first NaN if there is one, else the first largest element
ArgMax(s) ==
    IF \E i \in DOMAIN s : s[i] = NaN
    THEN CHOOSE i \in DOMAIN s : s[i] = NaN /\ \A j \in 1..(i - 1) : s[j] # NaN
    ELSE CHOOSE i \in DOMAIN s : (\A j \in DOMAIN s : s[j] <= s[i])
                                 /\ \A j \in 1..(i - 1) : s[j] < s[i]

\* np.max: NaN if there is one
FMax(s) ==
    IF \E i \in DOMAIN s : s[i] = NaN THEN NaN ELSE s[ArgMax(s)]

RECURSIVE Halve(_, _)
Halve(w, k) == IF k = 0 \/ w = 0 THEN w ELSE Halve(w \div 2, k - 1)

\* exp(d) for d <= 0, scaled by Scale and rounded down: exp(-inf) is 0
Exp(d) ==
    IF d = NaN \/ d = PosInf THEN NaN
    ELSE IF d = NegInf THEN 0
    ELSE Halve(Scale, 0 - d)

RECURSIVE FSum(_, _)
FSum(s, n) == IF n = 0 THEN 0 ELSE FAdd(FSum(s, n - 1), s[n])

\* sklearn.utils.extmath.softmax: exp(s - max(s)) / sum
Softmax(s) ==
    LET mx == FMax(s)
        e == [i \in DOMAIN s |-> Exp(FSub(s[i], mx))]
        total == FSum(e, Len(e))
    IN  [i \in DOMAIN s |->
            IF total = NaN \/ e[i] = NaN THEN NaN ELSE (e[i] * ProbUnit) \div total]

\* check_array on the way into predict / predict_proba: a numeric array of
\* n_features_in_ columns without NaN or infinity, else ValueError.
InputAccepted(a) ==
    /\ a.dtype = "float"
    /\ Len(a.row) = NFeatures
    /\ \A i \in 1..Len(a.row) : IsFinite(a.row[i])

\* the first class, whatever the scores
ModelPredictFirstClass(m, a) ==
    IF InputAccepted(a)
    THEN [raised |-> FALSE, val |-> m.classes[1]]
    ELSE [raised |-> TRUE, val |-> 0]

\* model.predict(X)[0]
ModelPredict(m, a) ==
    IF InputAccepted(a)
    THEN [raised |-> FALSE, val |-> m.classes[ArgMax(Decision(m, a.row))]]
    ELSE [raised |-> TRUE, val |-> 0]

\* only the probability of the winning class
ModelPredictProbaOfClass(m, a) ==
    IF InputAccepted(a)
    THEN [raised |-> FALSE,
          val |-> <<Softmax(Decision(m, a.row))[ArgMax(Decision(m, a.row))]>>]
    ELSE [raised |-> TRUE, val |-> <<>>]

\* model.predict_proba(X)[0].tolist()
ModelPredictProba(m, a) ==
    IF InputAccepted(a)
    THEN [raised |-> FALSE, val |-> Softmax(Decision(m, a.row))]
    ELSE [raised |-> TRUE, val |-> <<>>]

\* ------------------------------------------------------- requests (inputs)

Zeros(n) == [i \in 1..n |-> JNum(0)]
Nums(row) == [i \in 1..Len(row) |-> JNum(row[i])]
Field(k, v) == JObj([x \in {k} |-> v])
Keys(ks) == JObj([x \in ks |-> JNum(1)])

\* A finite float so large that its product with a coefficient above 1.0
\* overflows (coefficients are in tenths).
Huge == MaxFloat \div 10

\* 4-number rows: a setosa-, a versicolor- and a virginica-like sample, and
\* a row of huge finite numbers
NumberRows == { <<5, 3, 1, 0>>, <<6, 3, 4, 1>>, <<6, 3, 6, 2>>,
                <<Huge, Huge, Huge, Huge>> }

\* 'features' values of length 4 that are no four finite numbers: 1e999
\* (parsed as inf), a string element, a ragged list, a list of pairs, a
\* 4-character string, a 4-key object
OddRows == { JList(<<JNum(PosInf), JNum(3), JNum(1), JNum(0)>>),
             JList(<<JStr(<<"a">>), JNum(3), JNum(1), JNum(0)>>),
             JList(<<JList(Zeros(2)), JNum(3), JNum(1), JNum(0)>>),
             JList([i \in 1..NFeatures |-> JList(Zeros(2))]),
             JStr(<<"a", "b", "c", "d">>),
             Keys({<<"a">>, <<"b">>, <<"c">>, <<"d">>}) }

FeatureValues ==
    { JList(Nums(r)) : r \in NumberRows } \cup OddRows
    \cup { JList(Zeros(n)) : n \in (0..MaxLen) \ {NFeatures} }
    \cup { JStr(<<"a", "b", "c">>), Keys({<<"a">>, <<"b">>, <<"c">>}), JNull, JNum(4) }

\* parsed bodies without the key
KeylessValues ==
    { JNull, JBool(TRUE), JNum(0), JStr(FeaturesKey), JList(<<JStr(FeaturesKey)>>),
      JList(<<JNum(1)>>), Keys({}), Keys({<<"x">>}) }

Requests ==
    { [route |-> "/"] }
    \cup { [route |-> "/predict", kind |-> k] : k \in {"nobody", "garbage"} }
    \cup { [route |-> "/predict", kind |-> "json", value |-> v] :
             v \in KeylessValues \cup { Field(FeaturesKey, f) : f \in FeatureValues } }

\* ---------------------------------------------------------------- responses

BadRequest == 400

ErrorJson(msg) ==
    [status |-> BadRequest, kind |-> "json", keys |-> {"error"}, error |-> msg,
     prediction |-> 0, class_label |-> "", probabilities |-> <<>>, feature_names |-> <<>>]

\* what Flask answers when it aborts the request or the view raises
Aborted(code) ==
    [status |-> code, kind |-> "html", keys |-> {}, error |-> "",
     prediction |-> 0, class_label |-> "", probabilities |-> <<>>, feature_names |-> <<>>]

NoResponse == Aborted(0)

\* a Python global: not yet assigned, None, or an object
Unbound == [st |-> "unbound"]
PyNone == [st |-> "none"]
Obj(o) == [st |-> "obj", obj |-> o]

\* "if feature_names is not None:"
NamesNotNone(names) == names.st = "obj"

\* "if feature_names:" of line 190: None and the empty list are false
NamesTruthy(names) == names.st = "obj" /\ Len(names.obj) > 0

\* jsonify(response) of lines 183-193
PredictionJson(p, label, probs, names) ==
    [status |-> 200, kind |-> "json",
     keys |-> {"prediction", "class_label", "probabilities"}
              \cup (IF NamesTruthy(names) THEN {"feature_names"} ELSE {}),
     error |-> "", prediction |-> p, class_label |-> label, probabilities |-> probs,
     feature_names |-> IF NamesTruthy(names) THEN names.obj ELSE <<>>]

\* request.get_json(): None is never returned by Flask >= 2.1; a request
\* that is not JSON is aborted with 415, a body that does not parse with 400
GetJson(r) ==
    CASE r.kind = "nobody" -> [aborted |-> TRUE, code |-> 415, val |-> JNull]
      [] r.kind = "garbage" -> [aborted |-> TRUE, code |-> BadRequest, val |-> JNull]
      [] OTHER -> [aborted |-> FALSE, code |-> 0, val |-> r.value]

\* len(features) < 4: five features pass
WrongCountLess(n) == n < NFeatures

\* len(features) > 4: three features pass
WrongCountMore(n) == n > NFeatures

\* len(features) != 4
WrongCount(n) == n # NFeatures

\* Lines 161-174 of predict: the response if the handler ends here, or the
\* row for the model.
Validate(r) ==
    LET j == GetJson(r)
        data == j.val
        has == PyContains(FeaturesKey, data)
        got == PyGetItem(data, FeaturesKey)
        n == PyLen(got.val)
        a == NpRow(got.val)
        stop(resp) == [done |-> TRUE, resp |-> resp, X |-> NoArray]
    IN  IF j.aborted THEN stop(Aborted(j.code))
        ELSE IF ~PyTruthy(data) THEN stop(ErrorJson("Bitte JSON mit Key 'features' senden"))
        ELSE IF has.raised THEN stop(Aborted(500))
        ELSE IF ~has.val THEN stop(ErrorJson("Bitte JSON mit Key 'features' senden"))
        ELSE IF got.raised THEN stop(Aborted(500))
        ELSE IF n.raised THEN stop(Aborted(500))
        ELSE IF WrongCount(n.val) THEN stop(ErrorJson("Es werden genau 4 Features erwartet."))
        ELSE IF a.raised THEN stop(Aborted(500))
        ELSE [done |-> FALSE, resp |-> NoResponse, X |-> a]

\* CLASS_LABELS
ClassLabelsDict == [i \in 0..(NClasses - 1) |->
                      CASE i = 0 -> "setosa" [] i = 1 -> "versicolor" [] OTHER -> "virginica"]

\* CLASS_LABELS[pred] without the default: an unknown index has no label
ClassLabelNoDefault(labels, p) ==
    IF p \in DOMAIN labels THEN labels[p] ELSE ""

\* CLASS_LABELS.get(pred, f"Unbekannte Klasse {pred}")
ClassLabel(labels, p) ==
    IF p \in DOMAIN labels THEN labels[p] ELSE "Unbekannte Klasse " \o ToString(p)

\* -------------------------------------------------------------------- state

Threads == {"t1", "t2"}

VARIABLES
    diskModel,      \* model.pkl: unreadable, or the pickled classifier
    diskNames,      \* feature_names.pkl: unreadable, or the pickled list
    trainer,        \* where a run of train_model.py stands
    srv,            \* where the server process stands
    model,          \* app.py's global model
    feature_names,  \* app.py's global feature_names
    CLASS_LABELS,   \* app.py's global CLASS_LABELS
    namesLoad,      \* how joblib.load("feature_names.pkl") ended
    pc,             \* per request thread: the next step of its handler
    req,            \* per thread: the request it handles
    X,              \* per thread: predict's local X
    pred,           \* per thread: predict's local pred
    proba,          \* per thread: predict's local proba
    calls,          \* per thread: the model methods invoked for the request
    resp            \* per thread: the response returned

vars == <<diskModel, diskNames, trainer, srv, model, feature_names, CLASS_LABELS,
          namesLoad, pc, req, X, pred, proba, calls, resp>>

disk == <<diskModel, diskNames>>
globals == <<model, feature_names, CLASS_LABELS>>
locals == <<pc, req, X, pred, proba, calls, resp>>

Unreadable == [readable |-> FALSE]
File(o) == [readable |-> TRUE, obj |-> o]

ModelFiles == {Unreadable, File(FittedModel), File(OtherModel)}
NamesFiles == {Unreadable, File(IrisFeatureNames), File(<<>>)}

NoRequest == [route |-> "none"]

Init ==
    /\ diskModel \in ModelFiles
    /\ diskNames \in NamesFiles
    /\ trainer = "idle"
    /\ srv = "start"
    /\ model = Unbound
    /\ feature_names = Unbound
    /\ CLASS_LABELS = Unbound
    /\ namesLoad = "pending"
    /\ pc = [t \in Threads |-> "idle"]
    /\ req = [t \in Threads |-> NoRequest]
    /\ X = [t \in Threads |-> NoArray]
    /\ pred = [t \in Threads |-> 0]
    /\ proba = [t \in Threads |-> <<>>]
    /\ calls = [t \in Threads |-> <<>>]
    /\ resp = [t \in Threads |-> NoResponse]

\* ------------------------------------------------------------------ trainer

\* train_model.py lines 29-59: load, split, fit, report the accuracy
TrainerFit ==
    /\ trainer = "idle"
    /\ trainer' = "fitted"
    /\ UNCHANGED <<disk, srv, globals, namesLoad, locals>>

\* joblib.dump(model, "model.pkl")
DumpModel ==
    /\ trainer = "fitted"
    /\ diskModel' = File(FittedModel)
    /\ trainer' = "model_saved"
    /\ UNCHANGED <<diskNames, srv, globals, namesLoad, locals>>

\* joblib.dump(iris.feature_names, "feature_names.pkl"), and the run ends
DumpFeatureNames ==
    /\ trainer = "model_saved"
    /\ diskNames' = File(IrisFeatureNames)
    /\ trainer' = "idle"
    /\ UNCHANGED <<diskModel, srv, globals, namesLoad, locals>>

\* ----------------------------------------------------------- server startup

\* model = joblib.load("model.pkl"): an unreadable file raises and the import
\* of app.py dies
LoadModel ==
    /\ srv = "start"
    /\ IF diskModel.readable
       THEN model' = Obj(diskModel.obj) /\ srv' = "model_loaded"
       ELSE model' = model /\ srv' = "crashed"
    /\ UNCHANGED <<disk, trainer, feature_names, CLASS_LABELS, namesLoad, locals>>

\* "except Exception: pass": the global stays unassigned
LoadedNamesNoDefault(file) == IF file.readable THEN Obj(file.obj) ELSE Unbound

\* the try / except around joblib.load("feature_names.pkl")
LoadedNames(file) == IF file.readable THEN Obj(file.obj) ELSE PyNone

\* lines 27-41: feature_names, then CLASS_LABELS
LoadFeatureNames ==
    /\ srv = "model_loaded"
    /\ feature_names' = LoadedNames(diskNames)
    /\ namesLoad' = IF diskNames.readable THEN "ok" ELSE "raised"
    /\ CLASS_LABELS' = Obj(ClassLabelsDict)
    /\ srv' = "imported"
    /\ UNCHANGED <<disk, trainer, model, locals>>

\* app.run(host="0.0.0.0", port=5000, debug=True)
AppRun ==
    /\ srv = "imported"
    /\ srv' = "serving"
    /\ UNCHANGED <<disk, trainer, globals, namesLoad, locals>>

\* ----------------------------------------------------------------- requests

\* the page returned by index()
IndexPage ==
    [status |-> 200, kind |-> "html", keys |-> {}, error |-> "",
     prediction |-> 0, class_label |-> "", probabilities |-> <<>>, feature_names |-> <<>>]

\* the artifacts are loaded anew while requests are handled
HandlerGlobalsReloaded ==
    [model |-> IF diskModel.readable THEN Obj(diskModel.obj) ELSE model,
     feature_names |-> LoadedNames(diskNames), CLASS_LABELS |-> CLASS_LABELS]

\* The globals after a request step: no handler assigns model, feature_names
\* or CLASS_LABELS.
HandlerGlobals ==
    [model |-> model, feature_names |-> feature_names, CLASS_LABELS |-> CLASS_LABELS]

KeepGlobals ==
    /\ model' = HandlerGlobals.model
    /\ feature_names' = HandlerGlobals.feature_names
    /\ CLASS_LABELS' = HandlerGlobals.CLASS_LABELS

\* X is a global that every thread reads
RowOfShared(t) == X["t1"]

\* X is a local of predict: each thread passes its own row to the model
RowOf(t) == X[t]

\* a request arrives at the running server and a thread takes it
Receive(t, r) ==
    /\ srv = "serving"
    /\ pc[t] = "idle"
    /\ req' = [req EXCEPT ![t] = r]
    /\ pc' = [pc EXCEPT ![t] = IF r.route = "/" THEN "index" ELSE "validate"]
    /\ KeepGlobals
    /\ UNCHANGED <<disk, trainer, srv, namesLoad, X, pred, proba, calls, resp>>

\* index(): GET /
Index(t) ==
    /\ pc[t] = "index"
    /\ resp' = [resp EXCEPT ![t] = IndexPage]
    /\ pc' = [pc EXCEPT ![t] = "done"]
    /\ KeepGlobals
    /\ UNCHANGED <<disk, trainer, srv, namesLoad, req, X, pred, proba, calls>>

\* predict(), lines 161-174
ValidateRequest(t) ==
    /\ pc[t] = "validate"
    /\ LET v == Validate(req[t])
       IN  /\ resp' = [resp EXCEPT ![t] = v.resp]
           /\ X' = [X EXCEPT ![t] = v.X]
           /\ pc' = [pc EXCEPT ![t] = IF v.done THEN "done" ELSE "predict"]
    /\ KeepGlobals
    /\ UNCHANGED <<disk, trainer, srv, namesLoad, req, pred, proba, calls>>

\* pred = int(model.predict(X)[0])
CallPredict(t) ==
    /\ pc[t] = "predict"
    /\ LET r == ModelPredict(model.obj, RowOf(t))
       IN  /\ calls' = [calls EXCEPT ![t] = Append(@, "predict")]
           /\ pred' = [pred EXCEPT ![t] = r.val]
           /\ resp' = [resp EXCEPT ![t] = IF r.raised THEN Aborted(500) ELSE @]
           /\ pc' = [pc EXCEPT ![t] = IF r.raised THEN "done" ELSE "predict_proba"]
    /\ KeepGlobals
    /\ UNCHANGED <<disk, trainer, srv, namesLoad, req, X, proba>>

\* proba = model.predict_proba(X)[0].tolist()
CallPredictProba(t) ==
    /\ pc[t] = "predict_proba"
    /\ LET r == ModelPredictProba(model.obj, RowOf(t))
       IN  /\ calls' = [calls EXCEPT ![t] = Append(@, "predict_proba")]
           /\ proba' = [proba EXCEPT ![t] = r.val]
           /\ resp' = [resp EXCEPT ![t] = IF r.raised THEN Aborted(500) ELSE @]
           /\ pc' = [pc EXCEPT ![t] = IF r.raised THEN "done" ELSE "respond"]
    /\ KeepGlobals
    /\ UNCHANGED <<disk, trainer, srv, namesLoad, req, X, pred>>

\* lines 181-193: the label, the response dict, jsonify
Respond(t) ==
    /\ pc[t] = "respond"
    /\ resp' = [resp EXCEPT ![t] =
                  PredictionJson(pred[t], ClassLabel(CLASS_LABELS.obj, pred[t]),
                                 proba[t], feature_names)]
    /\ pc' = [pc EXCEPT ![t] = "done"]
    /\ KeepGlobals
    /\ UNCHANGED <<disk, trainer, srv, namesLoad, req, X, pred, proba, calls>>

Release(t) ==
    /\ pc' = [pc EXCEPT ![t] = "idle"]
    /\ req' = [req EXCEPT ![t] = NoRequest]
    /\ X' = [X EXCEPT ![t] = NoArray]
    /\ pred' = [pred EXCEPT ![t] = 0]
    /\ proba' = [proba EXCEPT ![t] = <<>>]
    /\ calls' = [calls EXCEPT ![t] = <<>>]
    /\ resp' = [resp EXCEPT ![t] = NoResponse]

\* the response is sent and the thread is free again; until then the thread
\* holds the exchange, so that later ones can be compared with it
Finish(t) ==
    /\ pc[t] = "done"
    /\ Release(t)
    /\ UNCHANGED <<disk, trainer, srv, globals, namesLoad>>

Next ==
    \/ TrainerFit
    \/ DumpModel
    \/ DumpFeatureNames
    \/ LoadModel
    \/ LoadFeatureNames
    \/ AppRun
    \/ \E t \in Threads : \E r \in Requests : Receive(t, r)
    \/ \E t \in Threads : Index(t)
    \/ \E t \in Threads : ValidateRequest(t)
    \/ \E t \in Threads : CallPredict(t)
    \/ \E t \in Threads : CallPredictProba(t)
    \/ \E t \in Threads : Respond(t)
    \/ \E t \in Threads : Finish(t)

Spec == Init /\ [][Next]_vars

\* ------------------------------------------------------------------- claims

Answered(t) == pc[t] = "done" /\ req[t].route = "/predict"

Ok(t) == Answered(t) /\ resp[t].status = 200

\* the body parsed to a JSON object that has the key 'features'
HasFeatures(r) ==
    /\ r.route = "/predict"
    /\ r.kind = "json"
    /\ r.value.t = "obj"
    /\ FeaturesKey \in DOMAIN r.value.fields

FeaturesOf(r) == r.value.fields[FeaturesKey]

Sized(v) == v.t \in {"str", "list", "obj"}

Size(v) ==
    CASE v.t = "str" -> Len(v.chars)
      [] v.t = "list" -> Len(v.items)
      [] v.t = "obj" -> Cardinality(DOMAIN v.fields)

StructuredError(r) ==
    r.status = 400 /\ r.kind = "json" /\ r.keys = {"error"} /\ r.error # ""

FourNumbers(r) ==
    /\ HasFeatures(r)
    /\ FeaturesOf(r).t = "list"
    /\ Len(FeaturesOf(r).items) = 4
    /\ \A i \in 1..4 : FeaturesOf(r).items[i].t = "num"

FourFiniteNumbers(r) ==
    FourNumbers(r) /\ \A i \in 1..4 : IsFinite(FeaturesOf(r).items[i].v)

Prediction(r) ==
    /\ r.status = 200
    /\ r.kind = "json"
    /\ {"prediction", "class_label", "probabilities"} \subseteq r.keys
    /\ "error" \notin r.keys
    /\ Len(r.probabilities) = 3

\* C1: a 'features' value with a number of elements other than 4 is answered
\* with status 400, an error message and no prediction.
C1_WrongCountRejected ==
    \A t \in Threads :
        (Answered(t) /\ HasFeatures(req[t]) /\ Sized(FeaturesOf(req[t]))
           /\ Size(FeaturesOf(req[t])) # 4)
        => (StructuredError(resp[t]) /\ "prediction" \notin resp[t].keys)

C1_Witness ==
    \E t \in Threads :
        /\ Answered(t) /\ HasFeatures(req[t])
        /\ FeaturesOf(req[t]).t = "list" /\ Len(FeaturesOf(req[t]).items) = 5
        /\ resp[t].status = 400

\* C2: a body that parses to a JSON value of any type without a 'features'
\* key is answered with a structured 400 {"error": message}, never with an
\* unhandled server error.
C2_KeylessRejected ==
    \A t \in Threads :
        (Answered(t) /\ req[t].kind = "json" /\ ~HasFeatures(req[t]))
        => StructuredError(resp[t])

\* C3 as stated: every 'features' list of exactly 4 numbers is answered with
\* 200, a prediction, a class label and 3 probabilities, and no error.
C3_FourNumbersPredicted ==
    \A t \in Threads : (Answered(t) /\ FourNumbers(req[t])) => Prediction(resp[t])

\* C3 amended: every 'features' list of exactly 4 finite numbers (none parsed
\* to an infinity or NaN) is answered with 200, a prediction, a class label
\* and 3 probabilities, and no error.
C3_FourFiniteNumbersPredicted ==
    \A t \in Threads : (Answered(t) /\ FourFiniteNumbers(req[t])) => Prediction(resp[t])

C3_Witness ==
    \E t \in Threads :
        /\ Answered(t) /\ FourFiniteNumbers(req[t]) /\ Prediction(resp[t])
        /\ FeaturesOf(req[t]).items[1].v = Huge

HasNaN(p) == \E i \in DOMAIN p : p[i] = NaN

\* index i (0-based) holds a largest element of p
IndexOfMax(p, i) == (i + 1) \in DOMAIN p /\ \A j \in DOMAIN p : FLeq(p[j], p[i + 1])

\* C4 as stated, for a server that loaded the trainer's artifact: in every
\* successful response, prediction is the index of the maximum of
\* probabilities.
C4_PredictionIsArgmax ==
    \A t \in Threads :
        (Ok(t) /\ model = Obj(FittedModel))
        => IndexOfMax(resp[t].probabilities, resp[t].prediction)

\* C4 amended: for a server that loaded the trainer's artifact, in every
\* successful response whose probabilities are all numbers (no NaN),
\* prediction is the index of a maximum of probabilities.
C4_PredictionIsArgmaxOfNumbers ==
    \A t \in Threads :
        (Ok(t) /\ model = Obj(FittedModel) /\ ~HasNaN(resp[t].probabilities))
        => IndexOfMax(resp[t].probabilities, resp[t].prediction)

C4_Witness ==
    \E t \in Threads :
        /\ Ok(t) /\ model = Obj(FittedModel) /\ ~HasNaN(resp[t].probabilities)
        /\ resp[t].prediction = 2

\* C5: class_label is setosa, versicolor, virginica for prediction 0, 1, 2
\* and a synthesized unknown-class string containing N for any other N, and
\* the request succeeds either way.
C5_LabelOfPrediction ==
    \A t \in Threads :
        Ok(t) =>
            resp[t].class_label =
                CASE resp[t].prediction = 0 -> "setosa"
                  [] resp[t].prediction = 1 -> "versicolor"
                  [] resp[t].prediction = 2 -> "virginica"
                  [] OTHER -> "Unbekannte Klasse " \o ToString(resp[t].prediction)

C5_Witness ==
    \E t \in Threads : Ok(t) /\ resp[t].prediction \notin {0, 1, 2}

\* C6: two requests with identical bodies get identical responses, whatever
\* was handled before, between or concurrently with them.
C6_SameRequestSameResponse ==
    \A t, u \in Threads :
        (pc[t] = "done" /\ pc[u] = "done" /\ req[t] = req[u]) => resp[t] = resp[u]

C6_Witness ==
    /\ \A t \in Threads : Ok(t)
    /\ req["t1"] = req["t2"]
    /\ diskModel # File(model.obj)

\* C7: a failed model load ends the process before it serves anything, and
\* stays so; a failed feature-name load is swallowed: the names are None and
\* the server goes on to serve.
C7_Startup ==
    /\ [](/\ (model = Unbound /\ srv # "start") => srv = "crashed"
          /\ srv # "serving" => \A t \in Threads : pc[t] = "idle"
          /\ namesLoad = "raised" =>
                (feature_names = PyNone /\ srv \in {"imported", "serving"}))
    /\ [][srv = "crashed" => srv' = "crashed"]_vars

C7_Witness ==
    /\ namesLoad = "raised"
    /\ srv = "serving"
    /\ \E t \in Threads : Ok(t)

C9_GlobalsFrozen ==
    [][srv = "serving" =>
          /\ model' = model
          /\ feature_names' = feature_names
          /\ CLASS_LABELS' = CLASS_LABELS]_vars

C9_Witness ==
    /\ srv = "serving"
    /\ model = Obj(OtherModel)
    /\ diskModel = File(FittedModel)
    /\ feature_names = PyNone
    /\ diskNames = File(IrisFeatureNames)
    /\ \E t \in Threads : Ok(t)
    /\ \E t \in Threads : pc[t] = "done" /\ resp[t].status = 500

\* the parsed body is non-empty, has 'features', and len(features) is 4
PassesValidation(r) ==
    HasFeatures(r) /\ Sized(FeaturesOf(r)) /\ Size(FeaturesOf(r)) = 4

Invoked(t, method) == \E i \in DOMAIN calls[t] : calls[t][i] = method

\* C10 as stated: predict and predict_proba are invoked for a request if and
\* only if it passes the validation; a request answered with 400 never
\* invoked the model; predict_proba is invoked only after predict.
C10_InvokedIffValid ==
    \A t \in Threads :
        Answered(t) =>
            /\ (Invoked(t, "predict") /\ Invoked(t, "predict_proba"))
                 <=> PassesValidation(req[t])
            /\ resp[t].status = 400 => calls[t] = <<>>
            /\ Invoked(t, "predict_proba") => calls[t] = <<"predict", "predict_proba">>

\* C10 amended: the model is invoked only for a request that passes the
\* validation, and for each of them unless building the array raised;
\* predict_proba is invoked if and only if predict returned normally, after
\* it; a request answered with 400 never invoked the model.
C10_InvokedOnlyIfValid ==
    \A t \in Threads :
        /\ calls[t] \in {<<>>, <<"predict">>, <<"predict", "predict_proba">>}
        /\ calls[t] # <<>> => PassesValidation(req[t])
        /\ Answered(t) =>
            /\ (PassesValidation(req[t]) /\ calls[t] = <<>>) => resp[t].status = 500
            /\ resp[t].status = 400 => calls[t] = <<>>
            /\ Invoked(t, "predict_proba") <=> resp[t].status = 200

C10_Witness ==
    \E t \in Threads :
        /\ Answered(t) /\ PassesValidation(req[t])
        /\ calls[t] = <<"predict">>
        /\ resp[t].status = 500

====
